---------------------------- MODULE Spec2Model ----------------------------
(***************************************************************************)
(* Model of the file-sharing server (src/server/server.js), its schema     *)
(* (src/server/init-db.js) and the client calls that reach it              *)
(* (src/client/src/contexts/AuthContext.tsx).                              *)
(*                                                                         *)
(* Strings are sequences of characters, so that their lengths are real     *)
(* (the schema's VARCHAR widths are enforced by the store).  Time is the   *)
(* clock of jsonwebtoken, in whole seconds.  Every request handler is one  *)
(* action; the response it sends is recorded in resp.  Requests are those  *)
(* the rate limiter (server.js:34-38) lets through: every behaviour of the *)
(* model stays far below its 100 requests per window.                      *)
(***************************************************************************)
EXTENDS Integers, Sequences, FiniteSets, TLC

(***************************************************************************)
(* Bounds of the exploration.                                              *)
(***************************************************************************)
MaxUserSeq == 2      \* values drawn from the sequence of users.id
MaxFileSeq == 1      \* values drawn from the sequence of files.id

(***************************************************************************)
(* Program constants.                                                      *)
(***************************************************************************)
AccessTTL == 86400           \* expiresIn: '24h'
ShareTTL == 604800           \* expiresIn: '7d'
UsernameWidth == 50          \* username VARCHAR(50)
EmailWidth == 100            \* email VARCHAR(100)
JWT_SECRET == "tu_clave_secreta_muy_segura"

VARIABLES
    users,       \* rows of table users
    userSeq,     \* last value of the SERIAL sequence of users.id
    files,       \* rows of table files
    fileSeq,     \* last value of the SERIAL sequence of files.id
    disk,        \* complete objects under uploads/ that a row of files was
                 \* written for (no route reads an object without a row)
    now,         \* Math.floor(Date.now() / 1000)
    sbMajor,     \* major version of @supabase/supabase-js the server is built with
    links,       \* share tokens that responses have handed to clients
    resp,        \* the response being sent, with the request it answers
    shares,      \* share requests suspended at the await of their update
    client       \* the AuthProvider of a browser: its state, localStorage, axios

vars == <<users, userSeq, files, fileSeq, disk, now, sbMajor, links, resp,
          shares, client>>

(***************************************************************************)
(* Strings.                                                                *)
(***************************************************************************)
Str(n) == [i \in 1..n |-> "a"]

\* JavaScript's !s for a string s
Falsy(s) == Len(s) = 0

\* the strings requests carry: empty, two that fit, one wider than its column
Usernames == {Str(0), Str(1), Str(2), Str(UsernameWidth + 1)}
Emails == {Str(0), Str(1), Str(2), Str(EmailWidth + 1)}
Passwords == {Str(0), Str(1), Str(2)}

(***************************************************************************)
(* The clock: the first second and the two expiry instants of the tokens   *)
(* issued in it.                                                           *)
(***************************************************************************)
Instants == {0, AccessTTL, ShareTTL}

(***************************************************************************)
(* jsonwebtoken.  A token is its claims and the key that signed it; a      *)
(* string that is not a JWT has no claims.                                 *)
(***************************************************************************)
Null == [null |-> TRUE]

Garbage == [raw |-> "garbage"]

\* a JavaScript array of rows, as a query answers it
Array(rows) == [array |-> rows]

\* a signer that grants twice the lifetime asked for
JwtSignDoubleTtl(payload, secret, ttl, t) ==
    [claims |-> payload @@ [iat |-> t, exp |-> t + ttl + ttl], key |-> secret]

JwtSign(payload, secret, ttl, t) ==
    [claims |-> payload @@ [iat |-> t, exp |-> t + ttl], key |-> secret]

\* a verifier that still takes a token at the very second of its exp
JwtVerifyLate(token, secret, t) ==
    IF "claims" \notin DOMAIN token
      THEN [err |-> "JsonWebTokenError", decoded |-> Null]
    ELSE IF token.key # secret
      THEN [err |-> "JsonWebTokenError", decoded |-> Null]
    ELSE IF t > token.claims.exp
      THEN [err |-> "TokenExpiredError", decoded |-> Null]
    ELSE [err |-> "", decoded |-> token.claims]

\* jwt.verify(token, secret): err is set for a malformed token, a bad
\* signature, or when the clock has reached exp
JwtVerify(token, secret, t) ==
    IF "claims" \notin DOMAIN token
      THEN [err |-> "JsonWebTokenError", decoded |-> Null]
    ELSE IF token.key # secret
      THEN [err |-> "JsonWebTokenError", decoded |-> Null]
    ELSE IF t >= token.claims.exp
      THEN [err |-> "TokenExpiredError", decoded |-> Null]
    ELSE [err |-> "", decoded |-> token.claims]

(***************************************************************************)
(* bcryptjs: a salted one-way hash and its comparison.                     *)
(***************************************************************************)
BcryptHash(password, rounds) ==
    [alg |-> "2a", cost |-> rounds, digest |-> <<"bcrypt", password>>]

BcryptCompare(password, hash) ==
    hash.digest = <<"bcrypt", password>>


(***************************************************************************)
(* The relational store as the supabase-js client shows it: every query    *)
(* answers {data, error}.                                                  *)
(***************************************************************************)
NoError == ""
PGRST116 == "JSON object requested, multiple (or no) rows returned"
DuplicateKey == "duplicate key value violates unique constraint"
ValueTooLong == "value too long for type character varying"
InvalidInteger == "invalid input syntax for type integer"

\* .single(): exactly one row, or an error
Single(rows) ==
    IF Cardinality(rows) = 1
      THEN [data |-> CHOOSE r \in rows : TRUE, error |-> NoError]
      ELSE [data |-> Null, error |-> PGRST116]

\* a users table whose email column lacks the UNIQUE constraint
InsertUserEmailNotUnique(username, hashedPassword, email) ==
    IF Len(username) > UsernameWidth \/ Len(email) > EmailWidth
      THEN [data |-> Null, error |-> ValueTooLong, seq |-> userSeq, rows |-> users]
    ELSE IF \E u \in users : u.username = username
      THEN [data |-> Null, error |-> DuplicateKey, seq |-> userSeq + 1, rows |-> users]
    ELSE LET row == [id |-> userSeq + 1, username |-> username,
                     email |-> email, password |-> hashedPassword,
                     created_at |-> now]
         IN [data |-> row, error |-> NoError, seq |-> userSeq + 1,
             rows |-> users \cup {row}]

\* supabase.from('users').insert([{username, password, email}]).select()
\* against the table of init-db.js: the widths are checked before the row
\* is formed, the UNIQUE constraints after it has drawn its id
InsertUser(username, hashedPassword, email) ==
    IF Len(username) > UsernameWidth \/ Len(email) > EmailWidth
      THEN [data |-> Null, error |-> ValueTooLong, seq |-> userSeq, rows |-> users]
    ELSE IF \E u \in users : u.username = username \/ u.email = email
      THEN [data |-> Null, error |-> DuplicateKey, seq |-> userSeq + 1, rows |-> users]
    ELSE LET row == [id |-> userSeq + 1, username |-> username,
                     email |-> email, password |-> hashedPassword,
                     created_at |-> now]
         IN [data |-> row, error |-> NoError, seq |-> userSeq + 1,
             rows |-> users \cup {row}]

(***************************************************************************)
(* Tokens a client can put in a request.  A registered user obtains an     *)
(* access token at any instant from its registration on (register, then    *)
(* login); share tokens are those a share response handed out; one token   *)
(* is signed with a key that is not the server's; one string is no token.  *)
(***************************************************************************)
AccessToken(u, t) ==
    JwtSign([id |-> u.id, username |-> u.username], JWT_SECRET, AccessTTL, t)

LoginInstants(u) == {t \in Instants : u.created_at <= t /\ t <= now}

AccessTokens ==
    UNION {{AccessToken(u, t) : t \in LoginInstants(u)} : u \in users}

ForgedToken ==
    [claims |-> [id |-> 1, username |-> Str(1), iat |-> 0, exp |-> ShareTTL + ShareTTL],
     key |-> "otra_clave"]

Presentable == AccessTokens \cup links \cup {ForgedToken, Garbage}

NoHeader == [absent |-> TRUE]
Bearer(t) == [scheme |-> "Bearer", token |-> t]
AuthHeaders == {NoHeader} \cup {Bearer(t) : t \in Presentable}

\* requests are handled one at a time: a handler runs when no response is
\* being sent
NoResponse == [route |-> "none", status |-> 0]

Idle == resp = NoResponse

\* the AuthProvider before anything is rendered: useState(null) twice,
\* useState(true), an empty localStorage, no default header
NoClient ==
    [token |-> Null, user |-> Null, loading |-> TRUE,
     savedToken |-> Null, savedUser |-> Null, header |-> NoHeader,
     pending |-> "none", returned |-> "none", dropped |-> Null]

(***************************************************************************)
(* authenticateToken                                                       *)
(***************************************************************************)
\* a middleware that reads the claims of a token without verifying it
authenticateTokenDecodeOnly(authHeader, t) ==
    LET token == IF "token" \in DOMAIN authHeader THEN authHeader.token ELSE Null
    IN IF token = Null
         THEN [next |-> FALSE, status |-> 401, error |-> "Token de acceso requerido",
               user |-> Null]
       ELSE IF "claims" \notin DOMAIN token
         THEN [next |-> FALSE, status |-> 403, error |-> "Token invalido", user |-> Null]
       ELSE [next |-> TRUE, status |-> 0, error |-> "", user |-> token.claims]

\* a middleware that answers a token that fails verification like a missing one
authenticateTokenUniform(authHeader, t) ==
    LET token == IF "token" \in DOMAIN authHeader THEN authHeader.token ELSE Null
        v == JwtVerify(token, JWT_SECRET, t)
    IN IF token = Null \/ v.err # ""
         THEN [next |-> FALSE, status |-> 401, error |-> "Token de acceso requerido",
               user |-> Null]
         ELSE [next |-> TRUE, status |-> 0, error |-> "", user |-> v.decoded]

\* a middleware that also refuses the token the client's last logout cleared
authenticateTokenRevoking(authHeader, t) ==
    LET token == IF "token" \in DOMAIN authHeader THEN authHeader.token ELSE Null
        v == JwtVerify(token, JWT_SECRET, t)
    IN IF token = Null
         THEN [next |-> FALSE, status |-> 401, error |-> "Token de acceso requerido",
               user |-> Null]
       ELSE IF v.err # "" \/ token = client.dropped
         THEN [next |-> FALSE, status |-> 403, error |-> "Token invalido", user |-> Null]
       ELSE [next |-> TRUE, status |-> 0, error |-> "", user |-> v.decoded]

authenticateToken(authHeader, t) ==
    LET token == IF "token" \in DOMAIN authHeader THEN authHeader.token ELSE Null
        v == JwtVerify(token, JWT_SECRET, t)
    IN IF token = Null
         THEN [next |-> FALSE, status |-> 401, error |-> "Token de acceso requerido",
               user |-> Null]
       ELSE IF v.err # ""
         THEN [next |-> FALSE, status |-> 403, error |-> "Token invalido", user |-> Null]
       ELSE [next |-> TRUE, status |-> 0, error |-> "", user |-> v.decoded]

(***************************************************************************)
(* POST /api/register                                                      *)
(***************************************************************************)
RegisterResponse(username, password, email, ins, t) ==
    LET req == [username |-> username, password |-> password, email |-> email]
        base == [route |-> "register", by |-> "handler", at |-> t, req |-> req,
                 token |-> Null, user |-> Null, details |-> ""]
    IN IF Falsy(username) \/ Falsy(password) \/ Falsy(email)
         THEN base @@ [status |-> 400, error |-> "Todos los campos son requeridos"]
       ELSE IF ins.error # NoError
         THEN IF ins.error = DuplicateKey
                THEN base @@ [status |-> 400, error |-> "Usuario o email ya existe"]
                ELSE [base EXCEPT !.details = ins.error] @@
                     [status |-> 500, error |-> "Error al crear usuario"]
       ELSE [base EXCEPT
               !.token = JwtSign([id |-> ins.data.id, username |-> ins.data.username],
                                 JWT_SECRET, AccessTTL, t),
               !.user = [id |-> ins.data.id, username |-> ins.data.username,
                         email |-> ins.data.email]] @@
            [status |-> 201, error |-> ""]

Register(username, password, email) ==
    LET valid == ~(Falsy(username) \/ Falsy(password) \/ Falsy(email))
        ins == InsertUser(username, BcryptHash(password, 10), email)
        r == RegisterResponse(username, password, email, ins, now)
    IN /\ Idle
       /\ valid => ins.seq <= MaxUserSeq
       /\ users' = IF valid THEN ins.rows ELSE users
       /\ userSeq' = IF valid THEN ins.seq ELSE userSeq
       /\ resp' = r
       /\ UNCHANGED <<shares, client, files, fileSeq, disk, now, sbMajor, links>>

(***************************************************************************)
(* POST /api/login                                                         *)
(***************************************************************************)
\* a lookup that matches the login name against the email column
LoginLookupByEmail(username) == Single({u \in users : u.email = username})

LoginLookup(username) == Single({u \in users : u.username = username})

LoginResponse(username, password, t) ==
    LET req == [username |-> username, password |-> password]
        base == [route |-> "login", by |-> "handler", at |-> t, req |-> req,
                 token |-> Null, user |-> Null, details |-> ""]
        q == LoginLookup(username)
    IN IF Falsy(username) \/ Falsy(password)
         THEN base @@ [status |-> 400, error |-> "Usuario y contrasena requeridos"]
       ELSE IF q.error # NoError
         THEN [base EXCEPT !.details = q.error] @@
              [status |-> 500, error |-> "Error interno del servidor"]
       ELSE IF q.data = Null
         THEN base @@ [status |-> 401, error |-> "Credenciales invalidas"]
       ELSE IF ~BcryptCompare(password, q.data.password)
         THEN base @@ [status |-> 401, error |-> "Credenciales invalidas"]
       ELSE [base EXCEPT
               !.token = JwtSign([id |-> q.data.id, username |-> q.data.username],
                                 JWT_SECRET, AccessTTL, t),
               !.user = [id |-> q.data.id, username |-> q.data.username,
                         email |-> q.data.email]] @@
            [status |-> 200, error |-> ""]

Login(username, password) ==
    LET r == LoginResponse(username, password, now)
    IN /\ Idle
       /\ resp' = r
       /\ UNCHANGED <<shares, client, users, userSeq, files, fileSeq, disk, now, sbMajor, links>>

(***************************************************************************)
(* The clock moves to a later instant.                                     *)
(***************************************************************************)
Tick(t) ==
    /\ Idle
    /\ t > now
    /\ now' = t
    /\ UNCHANGED <<shares, client, users, userSeq, files, fileSeq, disk, sbMajor, links, resp>>


(***************************************************************************)
(* multer: the parts of an upload, the file filter and the size limit.     *)
(* File names and mime types are sequences of characters.                  *)
(***************************************************************************)
FileSizeLimit == 10485760    \* 10 * 1024 * 1024

Contains(s, p) ==
    \E i \in 0..(Len(s) - Len(p)) : SubSeq(s, i + 1, i + Len(p)) = p

\* /jpeg|jpg|png|gif|pdf|txt|doc|docx|xls|xlsx|zip|rar/
allowedTypes ==
    { <<"j","p","e","g">>, <<"j","p","g">>, <<"p","n","g">>, <<"g","i","f">>,
      <<"p","d","f">>, <<"t","x","t">>, <<"d","o","c">>, <<"d","o","c","x">>,
      <<"x","l","s">>, <<"x","l","s","x">>, <<"z","i","p">>, <<"r","a","r">> }

RegexTest(s) == \E p \in allowedTypes : Contains(s, p)

ToLowerChar(c) ==
    CASE c = "P" -> "p" [] c = "D" -> "d" [] c = "F" -> "f" [] OTHER -> c

ToLowerCase(s) == [i \in 1..Len(s) |-> ToLowerChar(s[i])]

\* path.extname: from the last dot of the name, unless the name starts with it
ExtName(name) ==
    LET dots == {i \in 1..Len(name) : name[i] = "."}
        last == CHOOSE i \in dots : \A j \in dots : j <= i
    IN IF dots = {} THEN <<>>
       ELSE IF last = 1 THEN <<>>
       ELSE SubSeq(name, last, Len(name))

fileFilter(file) ==
    LET extname == RegexTest(ToLowerCase(ExtName(file.originalname)))
        mimetype == RegexTest(file.mimetype)
    IN mimetype /\ extname

PdfFile ==
    [originalname |-> <<"a",".","p","d","f">>,
     mimetype |-> <<"a","p","p","l","i","c","a","t","i","o","n","/","p","d","f">>,
     size |-> 1024]

TxtFile ==
    [originalname |-> <<"n",".","t","x","t">>,
     mimetype |-> <<"t","e","x","t","/","p","l","a","i","n">>,
     size |-> 1024]

ExeFile ==
    [originalname |-> <<"x",".","e","x","e">>,
     mimetype |-> <<"a","p","p","l","i","c","a","t","i","o","n","/","x","-","m","s","d","o","w","n","l","o","a","d">>,
     size |-> 1024]

BigFile == [PdfFile EXCEPT !.size = FileSizeLimit + 1]

\* a name that the file system takes and column file_path does not
LongNameFile ==
    [PdfFile EXCEPT !.originalname = Str(226) \o <<".","p","d","f">>]

NoFile == [nofile |-> TRUE]

UploadParts == {PdfFile, TxtFile, ExeFile, BigFile, LongNameFile, NoFile}

\* multer.diskStorage: uploads/<user id>/<unique suffix>-<original name>
StoragePath(userId, suffix, file) ==
    [dir |-> userId, filename |-> <<suffix, file.originalname>>]

(***************************************************************************)
(* POST /api/upload                                                        *)
(***************************************************************************)
PathWidth == 255         \* files.file_path VARCHAR(255)

\* req.file.path is <uploadsDir>/<user id>/<Date.now()>-<random>-<name>: an
\* absolute directory ending in /uploads (8 characters at least), a user id
\* (1 at least), two separators, 13 digits, a dash, a digit at least, a dash
MinPathPrefix == 27

PathLength(file) == MinPathPrefix + Len(file.originalname)

\* an insert that files every row under the first user
InsertFileOwnerOne(userId, path, file) ==
    [id |-> fileSeq + 1, user_id |-> 1, filename |-> path.filename,
     original_name |-> file.originalname, file_path |-> path,
     file_size |-> file.size, mime_type |-> file.mimetype,
     is_shared |-> FALSE, share_token |-> Null]

\* supabase.from('files').insert([...]).select(): is_shared and share_token
\* take the defaults of init-db.js
InsertFile(userId, path, file) ==
    [id |-> fileSeq + 1, user_id |-> userId, filename |-> path.filename,
     original_name |-> file.originalname, file_path |-> path,
     file_size |-> file.size, mime_type |-> file.mimetype,
     is_shared |-> FALSE, share_token |-> Null]

\* the answer {data, error} of that insert
InsertFileQuery(userId, path, file) ==
    IF PathLength(file) > PathWidth
      THEN [data |-> Null, error |-> ValueTooLong]
      ELSE [data |-> InsertFile(userId, path, file), error |-> NoError]

\* a handler that inserts the row without waiting for the bytes to be stored
UploadResponseRowFirst(authHeader, file, written, t) ==
    LET a == authenticateToken(authHeader, t)
        base == [route |-> "upload", at |-> t,
                 req |-> [auth |-> authHeader, file |-> file, written |-> written],
                 details |-> "", stored |-> Null, row |-> Null]
    IN IF ~a.next
         THEN base @@ [by |-> "authenticateToken", status |-> a.status, error |-> a.error]
       ELSE IF file = NoFile
         THEN base @@ [by |-> "handler", status |-> 400, error |-> "No se selecciono archivo"]
       ELSE IF "id" \notin DOMAIN a.user
         THEN base @@ [by |-> "multer", status |-> 500, error |-> "TypeError"]
       ELSE LET path == StoragePath(a.user.id, fileSeq + 1, file)
                ins == InsertFileQuery(a.user.id, path, file)
            IN IF ins.error # NoError
                 THEN [base EXCEPT !.details = ins.error] @@
                      [by |-> "handler", status |-> 500,
                       error |-> "Error al guardar archivo en base de datos"]
               ELSE IF ~fileFilter(file) \/ ~written \/ file.size > FileSizeLimit
                 THEN [base EXCEPT !.row = ins.data] @@
                      [by |-> "multer", status |-> 500, error |-> "write error"]
               ELSE [base EXCEPT !.stored = path, !.row = ins.data] @@
                    [by |-> "handler", status |-> 200, error |-> ""]

\* written: whether the disk takes the bytes multer streams to it
UploadResponse(authHeader, file, written, t) ==
    LET a == authenticateToken(authHeader, t)
        base == [route |-> "upload", at |-> t,
                 req |-> [auth |-> authHeader, file |-> file, written |-> written],
                 details |-> "", stored |-> Null, row |-> Null]
    IN IF ~a.next
         THEN base @@ [by |-> "authenticateToken", status |-> a.status, error |-> a.error]
       ELSE IF file = NoFile
         THEN base @@ [by |-> "handler", status |-> 400, error |-> "No se selecciono archivo"]
       ELSE IF ~fileFilter(file)
         THEN base @@ [by |-> "multer", status |-> 500, error |-> "Tipo de archivo no permitido"]
       ELSE IF "id" \notin DOMAIN a.user
         THEN base @@ [by |-> "multer", status |-> 500, error |-> "TypeError"]
       ELSE IF ~written
         THEN base @@ [by |-> "multer", status |-> 500, error |-> "write error"]
       ELSE IF file.size > FileSizeLimit
         THEN base @@ [by |-> "multer", status |-> 500, error |-> "LIMIT_FILE_SIZE"]
       ELSE LET path == StoragePath(a.user.id, fileSeq + 1, file)
                ins == InsertFileQuery(a.user.id, path, file)
            IN IF ins.error # NoError
                 THEN [base EXCEPT !.stored = path, !.details = ins.error] @@
                      [by |-> "handler", status |-> 500,
                       error |-> "Error al guardar archivo en base de datos"]
                 ELSE [base EXCEPT !.stored = path, !.row = ins.data] @@
                      [by |-> "handler", status |-> 200, error |-> ""]

Upload(authHeader, file, written) ==
    LET r == UploadResponse(authHeader, file, written, now)
    IN /\ Idle
       /\ r.row # Null => fileSeq < MaxFileSeq
       /\ files' = IF r.row # Null THEN files \cup {r.row} ELSE files
       /\ fileSeq' = IF r.row # Null THEN fileSeq + 1 ELSE fileSeq
       /\ disk' = IF r.row # Null THEN disk \cup {r.stored} ELSE disk
       /\ resp' = r
       /\ UNCHANGED <<shares, client, users, userSeq, now, sbMajor, links>>

(***************************************************************************)
(* GET /api/files                                                          *)
(***************************************************************************)
ListColumns(f) ==
    [id |-> f.id, filename |-> f.filename, original_name |-> f.original_name,
     file_size |-> f.file_size, mime_type |-> f.mime_type, is_shared |-> f.is_shared]

\* a query that leaves out .eq('user_id', req.user.id)
ListQueryAll(user) ==
    IF "id" \notin DOMAIN user
      THEN [data |-> Null, error |-> InvalidInteger]
      ELSE [data |-> Array({ListColumns(f) : f \in files}), error |-> NoError]

ListQuery(user) ==
    IF "id" \notin DOMAIN user
      THEN [data |-> Null, error |-> InvalidInteger]
      ELSE [data |-> Array({ListColumns(f) : f \in {g \in files : g.user_id = user.id}}),
            error |-> NoError]

ListResponse(authHeader, t) ==
    LET a == authenticateToken(authHeader, t)
        base == [route |-> "list", at |-> t, req |-> [auth |-> authHeader],
                 details |-> "", data |-> Null]
        q == ListQuery(a.user)
    IN IF ~a.next
         THEN base @@ [by |-> "authenticateToken", status |-> a.status, error |-> a.error]
       ELSE IF q.error # NoError
         THEN [base EXCEPT !.details = q.error] @@
              [by |-> "handler", status |-> 500, error |-> "Error al obtener archivos"]
       ELSE [base EXCEPT !.data = q.data] @@ [by |-> "handler", status |-> 200, error |-> ""]

List(authHeader) ==
    /\ Idle
    /\ resp' = ListResponse(authHeader, now)
    /\ UNCHANGED <<shares, client, users, userSeq, files, fileSeq, disk, now, sbMajor, links>>

(***************************************************************************)
(* GET /api/files/:id/download                                             *)
(***************************************************************************)
DownloadQuery(fileId, user) ==
    IF "id" \notin DOMAIN user
      THEN [data |-> Null, error |-> InvalidInteger]
      ELSE Single({f \in files : f.id = fileId /\ f.user_id = user.id})

DownloadResponse(authHeader, fileId, t) ==
    LET a == authenticateToken(authHeader, t)
        base == [route |-> "download", at |-> t, req |-> [auth |-> authHeader, fileId |-> fileId],
                 details |-> "", sent |-> Null]
        q == DownloadQuery(fileId, a.user)
    IN IF ~a.next
         THEN base @@ [by |-> "authenticateToken", status |-> a.status, error |-> a.error]
       ELSE IF q.error # NoError
         THEN [base EXCEPT !.details = q.error] @@
              [by |-> "handler", status |-> 500, error |-> "Error al buscar archivo"]
       ELSE IF q.data = Null
         THEN base @@ [by |-> "handler", status |-> 404, error |-> "Archivo no encontrado"]
       ELSE IF q.data.file_path \notin disk
         THEN base @@ [by |-> "handler", status |-> 404, error |-> "Archivo fisico no encontrado"]
       ELSE [base EXCEPT !.sent = q.data.file_path] @@
            [by |-> "handler", status |-> 200, error |-> ""]

Download(authHeader, fileId) ==
    /\ Idle
    /\ resp' = DownloadResponse(authHeader, fileId, now)
    /\ UNCHANGED <<shares, client, users, userSeq, files, fileSeq, disk, now, sbMajor, links>>


(***************************************************************************)
(* POST /api/files/:id/share                                               *)
(***************************************************************************)
\* the rows of supabase.from('files').update({is_shared: true, share_token})
\*   .eq('id', fileId).eq('user_id', req.user.id)
\* an update that keeps the token of a file that is already shared
ShareRowKeepFirst(f, shareToken) ==
    IF f.is_shared = TRUE THEN f
    ELSE [f EXCEPT !.is_shared = TRUE, !.share_token = shareToken]

\* an update that sets the flag and leaves the token column alone
ShareRowFlagOnly(f, shareToken) == [f EXCEPT !.is_shared = TRUE]

ShareRow(f, shareToken) == [f EXCEPT !.is_shared = TRUE, !.share_token = shareToken]

\* an update that leaves out .eq('user_id', req.user.id)
ShareMatchesAnyOwner(f, fileId, user) == f.id = fileId

ShareMatches(f, fileId, user) == f.id = fileId /\ f.user_id = user.id

\* No .select() follows the update: supabase-js 1.x answers with the updated
\* rows, supabase-js 2.x with data = null.  No version is pinned under src/.
ShareUpdate(fileId, user, shareToken) ==
    IF "id" \notin DOMAIN user
      THEN [data |-> Null, error |-> InvalidInteger, rows |-> files, replaced |-> Null]
      ELSE LET hit == {f \in files : ShareMatches(f, fileId, user)}
               new == {ShareRow(f, shareToken) : f \in hit}
           IN [data |-> IF sbMajor = 1 THEN Array(new) ELSE Null,
               error |-> NoError,
               rows |-> (files \ hit) \cup new,
               replaced |-> IF hit = {} THEN Null ELSE (CHOOSE f \in hit : TRUE).share_token]

ShareResponse(authHeader, fileId, t) ==
    LET a == authenticateToken(authHeader, t)
        base == [route |-> "share", at |-> t, req |-> [auth |-> authHeader, fileId |-> fileId],
                 details |-> "", shareToken |-> Null, replaced |-> Null]
        shareToken == JwtSign([fileId |-> fileId], JWT_SECRET, ShareTTL, t)
        u == ShareUpdate(fileId, a.user, shareToken)
    IN IF ~a.next
         THEN base @@ [by |-> "authenticateToken", status |-> a.status, error |-> a.error]
       ELSE IF u.error # NoError
         THEN [base EXCEPT !.details = u.error] @@
              [by |-> "handler", status |-> 500, error |-> "Error al compartir archivo"]
       ELSE IF u.data = Null
         THEN base @@ [by |-> "handler", status |-> 404, error |-> "Archivo no encontrado"]
       ELSE IF u.data = Array({})
         THEN base @@ [by |-> "handler", status |-> 404, error |-> "Archivo no encontrado"]
       ELSE [base EXCEPT !.shareToken = shareToken, !.replaced = u.replaced] @@
            [by |-> "handler", status |-> 200, error |-> ""]

Share(authHeader, fileId) ==
    LET a == authenticateToken(authHeader, now)
        shareToken == JwtSign([fileId |-> fileId], JWT_SECRET, ShareTTL, now)
        r == ShareResponse(authHeader, fileId, now)
    IN /\ Idle
       /\ files' = IF a.next THEN ShareUpdate(fileId, a.user, shareToken).rows ELSE files
       /\ links' = IF r.status = 200 THEN links \cup {r.shareToken} ELSE links
       /\ resp' = r
       /\ UNCHANGED <<shares, client, users, userSeq, fileSeq, disk, now, sbMajor>>

(***************************************************************************)
(* GET /api/shared/:token                                                  *)
(***************************************************************************)
\* a query that leaves out .eq('share_token', token)
SharedMatchesAnyToken(f, decoded, token) ==
    f.id = decoded.fileId /\ f.is_shared = TRUE

SharedMatches(f, decoded, token) ==
    f.id = decoded.fileId /\ f.is_shared = TRUE /\ f.share_token = token

SharedQuery(decoded, token) ==
    IF "fileId" \notin DOMAIN decoded
      THEN [data |-> Null, error |-> InvalidInteger]
      ELSE Single({f \in files : SharedMatches(f, decoded, token)})

SharedResponse(token, t) ==
    LET v == JwtVerify(token, JWT_SECRET, t)
        base == [route |-> "shared", by |-> "handler", at |-> t, req |-> [token |-> token],
                 details |-> "", sent |-> Null]
        q == SharedQuery(v.decoded, token)
    IN IF v.err # ""
         THEN [base EXCEPT !.details = v.err] @@
              [status |-> 500, error |-> "Token invalido o error interno"]
       ELSE IF q.error # NoError
         THEN [base EXCEPT !.details = q.error] @@
              [status |-> 500, error |-> "Error al obtener archivo compartido"]
       ELSE IF q.data = Null
         THEN base @@ [status |-> 404, error |-> "Archivo no encontrado o no compartido"]
       ELSE IF q.data.file_path \notin disk
         THEN base @@ [status |-> 404, error |-> "Archivo fisico no encontrado"]
       ELSE [base EXCEPT !.sent = q.data.file_path] @@ [status |-> 200, error |-> ""]

Shared(token) ==
    /\ Idle
    /\ resp' = SharedResponse(token, now)
    /\ UNCHANGED <<shares, client, users, userSeq, files, fileSeq, disk, now, sbMajor, links>>

(***************************************************************************)
(* DELETE /api/files/:id, as the client's handleDelete sends it.  The      *)
(* server registers no such route: no middleware of a route runs and       *)
(* express answers 404.                                                    *)
(***************************************************************************)
DeleteResponse(authHeader, fileId, t) ==
    [route |-> "delete", by |-> "express", at |-> t,
     req |-> [auth |-> authHeader, fileId |-> fileId],
     details |-> "", status |-> 404, error |-> "Cannot DELETE"]

Delete(authHeader, fileId) ==
    /\ Idle
    /\ resp' = DeleteResponse(authHeader, fileId, now)
    /\ UNCHANGED <<shares, client, users, userSeq, files, fileSeq, disk, now, sbMajor, links>>

(***************************************************************************)
(* A stored file disappears from uploads/ behind the server's back; the    *)
(* download routes test for it with fs.existsSync.                         *)
(***************************************************************************)
PhysicalFileLost(path) ==
    /\ Idle
    /\ path \in disk
    /\ disk' = disk \ {path}
    /\ UNCHANGED <<shares, client, users, userSeq, files, fileSeq, now, sbMajor, links, resp>>

(***************************************************************************)
(* The response has gone out and the server waits for the next request.    *)
(***************************************************************************)
Respond ==
    /\ ~Idle
    /\ resp' = NoResponse
    /\ UNCHANGED <<shares, client, users, userSeq, files, fileSeq, disk, now, sbMajor, links>>

(***************************************************************************)
(* POST /api/files/:id/share as it runs among other requests: the handler  *)
(* signs its token, starts the update and is suspended at the await; the   *)
(* update reaches the store later, as one statement.  MaxShares requests   *)
(* of the owner for the same file are under way.                           *)
(***************************************************************************)
MaxShares == 2

Requests == 1..MaxShares

NoShares == [r \in Requests |-> [pc |-> "idle", token |-> Null, order |-> 0]]

\* the file the requests are for, as an upload of user 1 left it
SharedFileId == 1

UploadedRow ==
    LET path == StoragePath(1, 1, PdfFile)
    IN [id |-> SharedFileId, user_id |-> 1, filename |-> path.filename,
        original_name |-> PdfFile.originalname, file_path |-> path,
        file_size |-> PdfFile.size, mime_type |-> PdfFile.mimetype,
        is_shared |-> FALSE, share_token |-> Null]

\* req.user of the owner, as authenticateToken decoded it
Owner == [id |-> 1, username |-> Str(1)]

\* const shareToken = jwt.sign(...); then the update is on its way
ShareMint(r) ==
    /\ shares[r].pc = "idle"
    /\ shares' = [shares EXCEPT ![r] =
                    [pc |-> "minted",
                     token |-> JwtSign([fileId |-> SharedFileId], JWT_SECRET, ShareTTL, now),
                     order |-> 0]]
    /\ UNCHANGED <<users, userSeq, files, fileSeq, disk, now, sbMajor, links, resp, client>>

\* the update statement of request r takes effect and the handler answers
ShareWrite(r) ==
    LET u == ShareUpdate(SharedFileId, Owner, shares[r].token)
        written == {q \in Requests : shares[q].pc = "done"}
        answered == u.error = NoError /\ u.data # Null /\ u.data # Array({})
    IN /\ shares[r].pc = "minted"
       /\ files' = u.rows
       /\ links' = IF answered THEN links \cup {shares[r].token} ELSE links
       /\ shares' = [shares EXCEPT ![r].pc = "done",
                                   ![r].order = Cardinality(written) + 1]
       /\ UNCHANGED <<users, userSeq, fileSeq, disk, now, sbMajor, resp, client>>

\* tokens the requests have signed, whether or not a response carried them
Minted == {shares[r].token : r \in {q \in Requests : shares[q].pc # "idle"}}

(***************************************************************************)
(* The AuthProvider of one browser.  client holds its React state (token,  *)
(* user, loading), the two localStorage items, the default Authorization   *)
(* header of axios, the call that is awaiting its response, and what the   *)
(* last call that finished returned.  dropped is the token the last logout *)
(* cleared: whoever copied it can still present it.  Only the AuthProvider *)
(* writes the two items, so they are both present or both absent.          *)
(***************************************************************************)
\* JSON.stringify and JSON.parse of the user object of a response
JsonStringify(user) == [json |-> <<user.id, user.username, user.email>>]

JsonParse(text) ==
    [id |-> text.json[1], username |-> text.json[2], email |-> text.json[3]]

\* the effect of mounting: a saved session is restored when both items exist
ClientRestored(c) ==
    IF c.savedToken # Null /\ c.savedUser # Null
      THEN [c EXCEPT !.token = c.savedToken, !.user = JsonParse(c.savedUser),
                     !.header = Bearer(c.savedToken), !.loading = FALSE]
      ELSE [c EXCEPT !.loading = FALSE]

\* the lines of login and register after the await, on a 2xx response
ClientSignedIn(c, token, user) ==
    [c EXCEPT !.token = token, !.user = user,
              !.savedToken = token, !.savedUser = JsonStringify(user),
              !.header = Bearer(token), !.pending = "none", !.returned = "true"]

\* the catch block: axios rejected
ClientFailed(c) == [c EXCEPT !.pending = "none", !.returned = "false"]

\* a logout that leaves the default header of axios in place
ClientSignedOutKeepHeader(c) ==
    [c EXCEPT !.token = Null, !.user = Null, !.savedToken = Null,
              !.savedUser = Null,
              !.dropped = IF c.token = Null THEN c.dropped ELSE c.token]

ClientSignedOut(c) ==
    [c EXCEPT !.token = Null, !.user = Null, !.savedToken = Null,
              !.savedUser = Null, !.header = NoHeader,
              !.dropped = IF c.token = Null THEN c.dropped ELSE c.token]

isAuthenticated == client.token # Null

\* what the forms of the client submit
ClientUsernames == {Str(0), Str(1), Str(2)}
ClientPasswords == {Str(1), Str(2)}

ClientMount ==
    /\ client.loading
    /\ client' = ClientRestored(client)
    /\ UNCHANGED <<users, userSeq, files, fileSeq, disk, now, sbMajor, links, resp, shares>>

\* login up to its await: the request is sent and the server handles it
ClientLogin(username, password) ==
    /\ ~client.loading
    /\ client.pending = "none"
    /\ Idle
    /\ resp' = LoginResponse(username, password, now)
    /\ client' = [client EXCEPT !.pending = "login"]
    /\ UNCHANGED <<users, userSeq, files, fileSeq, disk, now, sbMajor, links, shares>>

\* register up to its await
ClientRegister(username, password, email) ==
    LET valid == ~(Falsy(username) \/ Falsy(password) \/ Falsy(email))
        ins == InsertUser(username, BcryptHash(password, 10), email)
    IN /\ ~client.loading
       /\ client.pending = "none"
       /\ Idle
       /\ valid => ins.seq <= MaxUserSeq
       /\ users' = IF valid THEN ins.rows ELSE users
       /\ userSeq' = IF valid THEN ins.seq ELSE userSeq
       /\ resp' = RegisterResponse(username, password, email, ins, now)
       /\ client' = [client EXCEPT !.pending = "register"]
       /\ UNCHANGED <<files, fileSeq, disk, now, sbMajor, links, shares>>

\* the response arrives: axios resolves on a 2xx status and rejects otherwise
ClientSettle ==
    /\ client.pending # "none"
    /\ client' = IF resp.status \in 200..299
                   THEN ClientSignedIn(client, resp.token, resp.user)
                   ELSE ClientFailed(client)
    /\ resp' = NoResponse
    /\ UNCHANGED <<users, userSeq, files, fileSeq, disk, now, sbMajor, links, shares>>

ClientLogout ==
    /\ ~client.loading
    /\ client' = ClientSignedOut(client)
    /\ UNCHANGED <<users, userSeq, files, fileSeq, disk, now, sbMajor, links, resp, shares>>

\* the Authorization headers a request can carry from this browser, or from
\* a copy of the token it had before its last logout
ClientHeaders ==
    {client.header} \cup
    (IF client.dropped = Null THEN {} ELSE {Bearer(client.dropped)})

(***************************************************************************)
(* The system.                                                             *)
(***************************************************************************)
FileIds == 1..MaxFileSeq

Init ==
    /\ users = {}
    /\ userSeq = 0
    /\ files = {}
    /\ fileSeq = 0
    /\ disk = {}
    /\ now = 0
    /\ sbMajor \in {1, 2}
    /\ links = {}
    /\ resp = NoResponse
    /\ shares = NoShares
    /\ client = NoClient

Next ==
    \/ \E u \in Usernames, p \in Passwords, e \in Emails : Register(u, p, e)
    \/ \E u \in Usernames, p \in Passwords : Login(u, p)
    \/ \E h \in AuthHeaders, f \in UploadParts, w \in BOOLEAN : Upload(h, f, w)
    \/ \E h \in AuthHeaders : List(h)
    \/ \E h \in AuthHeaders, id \in FileIds : Download(h, id)
    \/ \E h \in AuthHeaders, id \in FileIds : Share(h, id)
    \/ \E t \in Presentable : Shared(t)
    \/ \E h \in AuthHeaders, id \in FileIds : Delete(h, id)
    \/ \E p \in disk : PhysicalFileLost(p)
    \/ \E t \in Instants : Tick(t)
    \/ Respond

Spec == Init /\ [][Next]_vars

(***************************************************************************)
(* The two halves of the system, explored apart: registration and login    *)
(* from the empty database, and the file routes from the database two      *)
(* registrations leave behind (Register(Str(1), Str(1), Str(1)) and        *)
(* Register(Str(2), Str(2), Str(2)) at instant 0).                         *)
(***************************************************************************)
NextAuth ==
    \/ \E u \in Usernames, p \in Passwords, e \in Emails : Register(u, p, e)
    \/ \E u \in Usernames, p \in Passwords : Login(u, p)
    \/ \E t \in Instants : Tick(t)
    \/ Respond

SpecAuth == Init /\ [][NextAuth]_vars

RegisteredUsers ==
    { [id |-> n, username |-> Str(n), email |-> Str(n),
       password |-> BcryptHash(Str(n), 10), created_at |-> 0] : n \in 1..2 }

InitFiles ==
    /\ users = RegisteredUsers
    /\ userSeq = 2
    /\ files = {}
    /\ fileSeq = 0
    /\ disk = {}
    /\ now = 0
    /\ sbMajor \in {1, 2}
    /\ links = {}
    /\ resp = NoResponse
    /\ shares = NoShares
    /\ client = NoClient

NextFiles ==
    \/ \E h \in AuthHeaders, f \in UploadParts, w \in BOOLEAN : Upload(h, f, w)
    \/ \E h \in AuthHeaders : List(h)
    \/ \E h \in AuthHeaders, id \in FileIds : Download(h, id)
    \/ \E h \in AuthHeaders, id \in FileIds : Share(h, id)
    \/ \E t \in Presentable : Shared(t)
    \/ \E h \in AuthHeaders, id \in FileIds : Delete(h, id)
    \/ \E u \in Usernames, p \in Passwords : Login(u, p)
    \/ \E p \in disk : PhysicalFileLost(p)
    \/ \E t \in Instants : Tick(t)
    \/ Respond

SpecFiles == InitFiles /\ [][NextFiles]_vars

\* concurrent shares of one uploaded file, and redeems of what they signed
InitShare ==
    /\ users = RegisteredUsers
    /\ userSeq = 2
    /\ files = {UploadedRow}
    /\ fileSeq = 1
    /\ disk = {UploadedRow.file_path}
    /\ now = 0
    /\ sbMajor \in {1, 2}
    /\ links = {}
    /\ resp = NoResponse
    /\ shares = NoShares
    /\ client = NoClient

NextShare ==
    \/ \E r \in Requests : ShareMint(r)
    \/ \E r \in Requests : ShareWrite(r)
    \/ \E t \in Minted : Shared(t)
    \/ \E t \in Instants : Tick(t)
    \/ Respond

SpecShare == InitShare /\ [][NextShare]_vars

\* one browser and the server, with one user registered; the browser starts
\* with nothing saved or with the session of an earlier login of that user
FirstUser == {u \in RegisteredUsers : u.id = 1}

SavedSession ==
    LET u == CHOOSE x \in FirstUser : TRUE
    IN [NoClient EXCEPT
          !.savedToken = AccessToken(u, 0),
          !.savedUser = JsonStringify([id |-> u.id, username |-> u.username,
                                       email |-> u.email])]

InitClient ==
    /\ users = FirstUser
    /\ userSeq = 1
    /\ files = {}
    /\ fileSeq = 0
    /\ disk = {}
    /\ now = 0
    /\ sbMajor \in {1, 2}
    /\ links = {}
    /\ resp = NoResponse
    /\ shares = NoShares
    /\ client \in {NoClient, SavedSession}

NextClient ==
    \/ ClientMount
    \/ \E u \in ClientUsernames, p \in ClientPasswords : ClientLogin(u, p)
    \/ \E u \in ClientUsernames, p \in ClientPasswords : ClientRegister(u, p, u)
    \/ ClientSettle
    \/ ClientLogout
    \/ \E h \in ClientHeaders : Upload(h, NoFile, TRUE)
    \/ \E h \in ClientHeaders : List(h)
    \/ \E h \in ClientHeaders, id \in FileIds : Download(h, id)
    \/ \E h \in ClientHeaders, id \in FileIds : Share(h, id)
    \/ \E t \in Instants : Tick(t)
    \/ client.pending = "none" /\ Respond

SpecClient == InitClient /\ [][NextClient]_vars


(***************************************************************************)
(* Vocabulary of the properties.                                           *)
(***************************************************************************)
AuthenticatedRoutes == {"upload", "list", "download", "share"}

\* the four ways a request fails authentication, or "ok"
AuthCase(authHeader, t) ==
    IF "token" \notin DOMAIN authHeader THEN "missing"
    ELSE IF "claims" \notin DOMAIN authHeader.token THEN "malformed"
    ELSE IF authHeader.token.key # JWT_SECRET THEN "bad signature"
    ELSE IF t >= authHeader.token.claims.exp THEN "expired"
    ELSE "ok"

IsAccessToken(token) ==
    /\ "claims" \in DOMAIN token
    /\ token.key = JWT_SECRET
    /\ DOMAIN token.claims = {"id", "username", "iat", "exp"}

IsShareToken(token) ==
    /\ "claims" \in DOMAIN token
    /\ token.key = JWT_SECRET
    /\ DOMAIN token.claims = {"fileId", "iat", "exp"}

\* the request answered by resp carries an access token that is valid when
\* it is handled
ByValidAccessToken ==
    /\ "auth" \in DOMAIN resp.req
    /\ AuthCase(resp.req.auth, resp.at) = "ok"
    /\ IsAccessToken(resp.req.auth.token)

Caller == resp.req.auth.token.claims.id

(***************************************************************************)
(* C1.  For every file in the registry whose backing object exists, a      *)
(* download with a valid access token of the owner succeeds, and a         *)
(* download of that id with a valid access token of another user fails     *)
(* with 404 NotFound, the outcome for an id that does not exist at all.    *)
(***************************************************************************)
C1_DownloadOwnerScoped ==
    (resp.route = "download" /\ ByValidAccessToken) =>
        /\ \A f \in files :
             (f.id = resp.req.fileId /\ f.file_path \in disk) =>
                 IF f.user_id = Caller
                   THEN resp.status = 200 /\ resp.sent = f.file_path
                   ELSE resp.status = 404
        /\ (\A f \in files : f.id # resp.req.fileId) => resp.status = 404

(***************************************************************************)
(* C2.  When the owner shares a file that an earlier share call already    *)
(* shared, however little time lies between the two calls, redeeming the   *)
(* token the earlier call stored and returned fails, and redeeming the     *)
(* token of the later call succeeds (its backing object being there).      *)
(***************************************************************************)
C2_ReshareInvalidatesFirstToken ==
    (resp.route = "share" /\ resp.status = 200 /\ resp.replaced # Null) =>
        /\ SharedResponse(resp.replaced, now).status # 200
        /\ (\A f \in files : f.id = resp.req.fileId => f.file_path \in disk)
             => SharedResponse(resp.shareToken, now).status = 200

(***************************************************************************)
(* C3.  Redeeming a share token delivers a file only if the token          *)
(* verifies (signature and expiry), the file id decoded from it names an   *)
(* existing file with is_shared true, and the share_token stored on that   *)
(* file is exactly the presented token; the request names no caller.       *)
(***************************************************************************)
C3_RedeemOnlyStoredToken ==
    (resp.route = "shared" /\ resp.status = 200) =>
        LET v == JwtVerify(resp.req.token, JWT_SECRET, resp.at)
        IN /\ v.err = ""
           /\ "fileId" \in DOMAIN v.decoded
           /\ \E f \in files :
                /\ f.id = v.decoded.fileId
                /\ f.is_shared = TRUE
                /\ f.share_token = resp.req.token
                /\ resp.sent = f.file_path
           /\ "auth" \notin DOMAIN resp.req

\* a redeem has delivered a file although an older link of it is around
C3_Witness ==
    /\ resp.route = "shared"
    /\ resp.status = 200
    /\ \E t \in links : t # resp.req.token /\ t.claims.fileId = resp.req.token.claims.fileId

(***************************************************************************)
(* C4.  In every reachable state of the registry each file has is_shared   *)
(* true if and only if its share_token is not null.                        *)
(***************************************************************************)
C4_SharedIffToken ==
    \A f \in files : (f.is_shared = TRUE) <=> (f.share_token # Null)

\* a share has just written both columns of a file
C4_Witness ==
    /\ resp.route = "share"
    /\ \E f \in files :
         f.id = resp.req.fileId /\ f.is_shared = TRUE /\ f.share_token # Null

(***************************************************************************)
(* C5.  A token of one kind is never accepted as the other: a share token  *)
(* sent as Bearer token is rejected by authenticateToken on every          *)
(* authenticated route, and an access token sent to the redeem route is    *)
(* rejected as an invalid token.                                           *)
(***************************************************************************)
C5_TokenKindsNotInterchangeable ==
    /\ (/\ resp.route \in AuthenticatedRoutes
        /\ "token" \in DOMAIN resp.req.auth
        /\ IsShareToken(resp.req.auth.token))
         => (resp.by = "authenticateToken" /\ resp.status \in {401, 403})
    /\ (resp.route = "shared" /\ IsAccessToken(resp.req.token))
         => resp.error = "Token invalido o error interno"

C6_AuthFailureOutcome ==
    (resp.route \in AuthenticatedRoutes /\ AuthCase(resp.req.auth, resp.at) # "ok") =>
        /\ resp.by = "authenticateToken"
        /\ IF AuthCase(resp.req.auth, resp.at) = "missing"
             THEN resp.status = 401 /\ resp.error = "Token de acceso requerido"
             ELSE resp.status = 403 /\ resp.error = "Token invalido"

C7_LoginFailuresIndistinguishable ==
    (/\ resp.route = "login"
     /\ ~Falsy(resp.req.username)
     /\ ~Falsy(resp.req.password)
     /\ \A u \in users :
          u.username = resp.req.username => ~BcryptCompare(resp.req.password, u.password))
      => /\ resp.status = 401
         /\ resp.error = "Credenciales invalidas"
         /\ resp.details = ""
         /\ resp.token = Null

\* the registration answered by resp found its username or email in use
Taken ==
    \E u \in users :
        /\ u.username = resp.req.username \/ u.email = resp.req.email
        /\ resp.status = 201 => u.id # resp.user.id

RequiredFields ==
    /\ ~Falsy(resp.req.username)
    /\ ~Falsy(resp.req.password)
    /\ ~Falsy(resp.req.email)

FitsColumns ==
    /\ Len(resp.req.username) <= UsernameWidth
    /\ Len(resp.req.email) <= EmailWidth

\* what C8 says of a login answered by resp
LoginOfRegistered ==
    (/\ resp.route = "login"
     /\ ~Falsy(resp.req.password)
     /\ \E u \in users :
          u.username = resp.req.username /\ u.password = BcryptHash(resp.req.password, 10))
      => /\ resp.status = 200
         /\ JwtVerify(resp.token, JWT_SECRET, resp.at).err = ""
         /\ \E u \in users :
              /\ u.username = resp.req.username
              /\ resp.token.claims.id = u.id
              /\ resp.token.claims.username = u.username
              /\ resp.user = [id |-> u.id, username |-> u.username, email |-> u.email]

(***************************************************************************)
(* C8.  As claimed: a registration with all three fields non-empty and     *)
(* neither username nor email taken succeeds, and a later login with the   *)
(* same username and password succeeds with an access token that carries   *)
(* the id and username of the user the registration created.               *)
(***************************************************************************)
C8_RegisterThenLogin ==
    /\ (resp.route = "register" /\ RequiredFields /\ ~Taken) =>
          /\ resp.status = 201
          /\ \E u \in users :
               /\ u.username = resp.req.username
               /\ u.email = resp.req.email
               /\ u.password = BcryptHash(resp.req.password, 10)
               /\ resp.token.claims.id = u.id
               /\ resp.token.claims.username = u.username
    /\ LoginOfRegistered

(***************************************************************************)
(* C8, amended.  A registration with all three fields non-empty, a         *)
(* username of at most 50 characters, an email of at most 100 characters   *)
(* and neither of them taken succeeds, and a later login with the same     *)
(* username and password succeeds with an access token that carries the    *)
(* id and username of the user the registration created.                   *)
(***************************************************************************)
C8_RegisterThenLoginWithinColumns ==
    /\ (resp.route = "register" /\ RequiredFields /\ FitsColumns /\ ~Taken) =>
          /\ resp.status = 201
          /\ \E u \in users :
               /\ u.username = resp.req.username
               /\ u.email = resp.req.email
               /\ u.password = BcryptHash(resp.req.password, 10)
               /\ resp.token.claims.id = u.id
               /\ resp.token.claims.username = u.username
    /\ LoginOfRegistered

\* the second registered user has logged in at a later instant
C8_Witness ==
    /\ resp.route = "login"
    /\ resp.status = 200
    /\ resp.token.claims.id = 2
    /\ resp.at > 0
    /\ \E u \in users : u.id = 2 /\ u.username = resp.req.username

UniqueUsers ==
    \A u1, u2 \in users :
        (u1.username = u2.username \/ u1.email = u2.email) => u1 = u2

(***************************************************************************)
(* C9.  As claimed: a registration whose username or email an existing     *)
(* user already has fails with 400 DuplicateUser and leaves the user       *)
(* records unchanged; no two user records ever share a username or an      *)
(* email.                                                                  *)
(***************************************************************************)
C9_DuplicateRejected ==
    /\ [](/\ (resp.route = "register" /\ RequiredFields /\ Taken) =>
               /\ resp.status = 400
               /\ resp.error = "Usuario o email ya existe"
               /\ resp.token = Null
          /\ UniqueUsers)
    /\ [][(resp' # resp /\ resp'.route = "register" /\ resp'.status # 201)
            => users' = users]_vars

(***************************************************************************)
(* C9, amended.  A registration with a username of at most 50 characters   *)
(* and an email of at most 100 characters, one of which an existing user   *)
(* already has, fails with 400 DuplicateUser; every registration that      *)
(* fails leaves the user records unchanged; no two user records ever       *)
(* share a username or an email.                                           *)
(***************************************************************************)
C9_DuplicateRejectedWithinColumns ==
    /\ [](/\ (resp.route = "register" /\ RequiredFields /\ FitsColumns /\ Taken) =>
               /\ resp.status = 400
               /\ resp.error = "Usuario o email ya existe"
               /\ resp.token = Null
          /\ UniqueUsers)
    /\ [][(resp' # resp /\ resp'.route = "register" /\ resp'.status # 201)
            => users' = users]_vars

\* a registration reusing only the email of an existing user has been refused
C9_Witness ==
    /\ resp.route = "register"
    /\ resp.status = 400
    /\ resp.error = "Usuario o email ya existe"
    /\ \E u \in users : u.email = resp.req.email /\ u.username # resp.req.username
    /\ \A u \in users : u.username # resp.req.username

(***************************************************************************)
(* C10.  A delete with a valid access token of the file's owner succeeds   *)
(* and removes the file's row from the registry; a delete of another       *)
(* user's file or of an id that does not exist fails with 404 NotFound.    *)
(***************************************************************************)
C10_DeleteOwnerScoped ==
    (resp.route = "delete" /\ ByValidAccessToken) =>
        /\ \A f \in files : ~(f.id = resp.req.fileId /\ f.user_id = Caller)
        /\ resp.status # 200 => resp.status = 404

(***************************************************************************)
(* C11.  Once the owner's delete of a file has been answered (or the id    *)
(* names no file), redeeming any share token that was issued for that      *)
(* file and has not expired fails with 404 NotFound.                       *)
(***************************************************************************)
C11_RedeemAfterDeleteNotFound ==
    (/\ resp.route = "delete"
     /\ ByValidAccessToken
     /\ \A f \in files : f.id = resp.req.fileId => f.user_id = Caller)
      => \A token \in links :
           (token.claims.fileId = resp.req.fileId /\ now < token.claims.exp)
             => SharedResponse(token, now).status = 404

\* an upload answered by resp that a valid access token sent with a file part
UploadOf(file) ==
    /\ resp.route = "upload"
    /\ ByValidAccessToken
    /\ resp.req.file = file

(***************************************************************************)
(* C12.  An upload whose file exceeds the 10 MiB cap fails with 413        *)
(* PayloadTooLarge and adds no row to the registry.                        *)
(***************************************************************************)
C12_OversizeIsPayloadTooLarge ==
    \A file \in UploadParts \ {NoFile} :
        (UploadOf(file) /\ file.size > FileSizeLimit) =>
            /\ resp.status = 413
            /\ resp.row = Null
            /\ \A f \in files : f.file_size <= FileSizeLimit

\* the kinds of the upload parts whose extension is on the allow-list and
\* whose declared mime type is the standard one of that extension
AllowedKinds == {PdfFile, TxtFile, BigFile, LongNameFile}

(***************************************************************************)
(* C13.  An upload is accepted only when both its extension and its        *)
(* declared mime type are on the allow-list: an upload of another kind     *)
(* (an .exe) fails with 415 UnsupportedType and creates no row, and an     *)
(* upload of an allowed kind within the size cap (a .txt file declared     *)
(* text/plain) is accepted.                                                *)
(***************************************************************************)
C13_AllowListDecidesUpload ==
    \A file \in UploadParts \ {NoFile} :
        UploadOf(file) =>
            IF file \in AllowedKinds
              THEN (/\ resp.req.written
                    /\ file.size <= FileSizeLimit
                    /\ PathLength(file) <= PathWidth)
                     => (resp.status = 200 /\ resp.row \in files)
              ELSE resp.status = 415 /\ resp.row = Null

(***************************************************************************)
(* C14.  In every upload the row is written only after the bytes have      *)
(* been stored: a row enters the registry only in an upload that stored    *)
(* its bytes and answers success, with the stored object as its locator;   *)
(* an upload whose bytes are not stored or that is rejected leaves the     *)
(* registry as it was.                                                     *)
(***************************************************************************)
C14_RowOnlyAfterBytes ==
    /\ [](resp.route = "upload" =>
            /\ resp.row # Null =>
                 (resp.stored # Null /\ resp.row.file_path = resp.stored /\ resp.status = 200)
            /\ resp.status # 200 => resp.row = Null)
    /\ [][/\ \A f \in {g \in files' : \A h \in files : h.id # g.id} :
               /\ resp'.route = "upload"
               /\ resp'.req.written
               /\ resp'.row = f
               /\ f.file_path \in disk'
          /\ (resp' # resp /\ resp'.route = "upload" /\ resp'.status # 200)
               => files' = files]_vars

\* after an upload that registered a file, an upload whose bytes the disk
\* refused has been answered
C14_Witness ==
    /\ UploadOf(PdfFile)
    /\ ~resp.req.written
    /\ resp.status = 500
    /\ resp.row = Null
    /\ files # {}

\* the share answered by resp was asked with a valid access token
ShareAsked == resp.route = "share" /\ ByValidAccessToken

OwnRows == {f \in files : f.id = resp.req.fileId /\ f.user_id = Caller}

(***************************************************************************)
(* C15.  A share of a file id that does not exist, or that another user    *)
(* owns, fails with 404 NotFound and returns no share token; and whenever  *)
(* a share reports failure, is_shared and share_token of every row are     *)
(* what they were before it.                                               *)
(***************************************************************************)
C15_FailedShareChangesNothing ==
    /\ []((ShareAsked /\ OwnRows = {}) =>
             (resp.status = 404 /\ resp.shareToken = Null))
    /\ [][(resp' # resp /\ resp'.route = "share" /\ resp'.status # 200)
            => files' = files]_vars

(***************************************************************************)
(* C16.  A share by the owner of an existing file reports success and      *)
(* returns the very token that is now stored on the file, with is_shared   *)
(* true, so that redeeming the returned token right away delivers that     *)
(* file (its object being there).                                          *)
(***************************************************************************)
C16_ShareReturnsStoredToken ==
    ShareAsked =>
        \A f \in OwnRows :
            /\ resp.status = 200
            /\ resp.shareToken # Null
            /\ f.is_shared = TRUE
            /\ f.share_token = resp.shareToken
            /\ f.file_path \in disk =>
                 LET r == SharedResponse(resp.shareToken, now)
                 IN r.status = 200 /\ r.sent = f.file_path

\* the request answered by resp carried a token that login or register signed
WithAccessToken ==
    /\ resp.route \in AuthenticatedRoutes
    /\ "token" \in DOMAIN resp.req.auth
    /\ IsAccessToken(resp.req.auth.token)

Accepted == resp.by # "authenticateToken"

(***************************************************************************)
(* C17.  As claimed: an access token is accepted by request                *)
(* authentication at every time up to 24 hours after its issuance, that    *)
(* instant included, and rejected at every later time.                     *)
(***************************************************************************)
C17_AcceptedUpTo24h ==
    WithAccessToken =>
        (Accepted <=> resp.at <= resp.req.auth.token.claims.iat + AccessTTL)

(***************************************************************************)
(* C17, amended.  An access token is accepted by request authentication    *)
(* at every second of the server's clock earlier than 24 hours after the   *)
(* second of its issuance and rejected from that instant on; acceptance    *)
(* is a function of the token, the secret and the clock alone, the same    *)
(* in every state of the stores.                                           *)
(***************************************************************************)
C17_AcceptedBefore24h ==
    /\ WithAccessToken =>
         (Accepted <=> resp.at < resp.req.auth.token.claims.iat + AccessTTL)
    /\ \A token \in AccessTokens, t \in Instants :
         authenticateToken(Bearer(token), t).next <=> t < token.claims.iat + AccessTTL

\* a list request carrying a token issued exactly 24 hours earlier is refused
C17_Witness ==
    /\ resp.route = "list"
    /\ WithAccessToken
    /\ resp.at = resp.req.auth.token.claims.iat + AccessTTL
    /\ resp.status = 403

\* the redeem answered by resp presented a share token at or after the end
\* of its seven days
RedeemedExpired ==
    /\ resp.route = "shared"
    /\ IsShareToken(resp.req.token)
    /\ resp.at >= resp.req.token.claims.iat + ShareTTL

C19_NoRawStoreError ==
    (resp.route # "none" /\ "details" \in DOMAIN resp) =>
        resp.details \notin {PGRST116, DuplicateKey, ValueTooLong, InvalidInteger}

\* the rows a list response carries
Listed == resp.data.array

(***************************************************************************)
(* C20.  A list with a valid access token of user U returns exactly the    *)
(* rows of the files U owns: every file U uploaded (rows never leave the   *)
(* registry or change owner) and no file of another user.                  *)
(***************************************************************************)
C20_ListExactlyOwn ==
    /\ []((resp.route = "list" /\ ByValidAccessToken) =>
            /\ resp.status = 200
            /\ \A f \in files :
                 f.user_id = Caller <=>
                   \E r \in Listed :
                       /\ r.id = f.id
                       /\ r.original_name = f.original_name
                       /\ r.file_size = f.file_size
                       /\ r.is_shared = f.is_shared
            /\ \A r \in Listed : \E f \in files : f.id = r.id /\ f.user_id = Caller
            /\ Cardinality(Listed) = Cardinality({f \in files : f.user_id = Caller}))
    /\ [][\A f \in files : \E g \in files' : g.id = f.id /\ g.user_id = f.user_id]_vars

\* a user without files has listed while another user's file is registered
C20_Witness ==
    /\ resp.route = "list"
    /\ ByValidAccessToken
    /\ Listed = {}
    /\ \E f \in files : f.user_id # Caller

\* the rows of files' whose id no row of files has
NewRows == {g \in files' : \A f \in files : f.id # g.id}

\* the step is the handling of a request that carries a valid access token
ValidAccessStep ==
    /\ resp' # resp
    /\ "auth" \in DOMAIN resp'.req
    /\ AuthCase(resp'.req.auth, resp'.at) = "ok"
    /\ IsAccessToken(resp'.req.auth.token)

(***************************************************************************)
(* C23.  Every row that an upload creates has the user id of the access    *)
(* token that authenticated the request as its owner, is_shared false and  *)
(* share_token null; a file that is not shared becomes shared only in a    *)
(* share request authenticated by its owner.                               *)
(***************************************************************************)
C23_UploadedRowDefaults ==
    [][/\ \A g \in NewRows :
            /\ resp'.route = "upload"
            /\ ValidAccessStep
            /\ g.user_id = resp'.req.auth.token.claims.id
            /\ g.is_shared = FALSE
            /\ g.share_token = Null
       /\ \A f \in files, g \in files' :
            (g.id = f.id /\ f.is_shared = FALSE /\ g.is_shared = TRUE) =>
                /\ resp'.route = "share"
                /\ ValidAccessStep
                /\ resp'.req.auth.token.claims.id = f.user_id]_vars

\* the second user's upload has been registered, not yet shared
C23_Witness ==
    /\ UploadOf(PdfFile)
    /\ resp.status = 200
    /\ Caller = 2
    /\ resp.row \in files
    /\ resp.row.user_id = 2

(***************************************************************************)
(* C24.  No operation changes the owner or the storage locator of an       *)
(* existing row or removes it; is_shared and share_token of a row change   *)
(* only in a share request for that file authenticated by its owner;       *)
(* list, download, redeem, login and delete requests leave every row       *)
(* unchanged.                                                              *)
(***************************************************************************)
C24_RowsFramed ==
    [][/\ \A f \in files : \E g \in files' :
            /\ g.id = f.id
            /\ g.user_id = f.user_id
            /\ g.file_path = f.file_path
            /\ [g EXCEPT !.is_shared = f.is_shared, !.share_token = f.share_token] = f
            /\ g # f =>
                 /\ resp'.route = "share"
                 /\ ValidAccessStep
                 /\ resp'.req.fileId = f.id
                 /\ resp'.req.auth.token.claims.id = f.user_id
       /\ (/\ resp' # resp
           /\ resp'.route \in {"list", "download", "shared", "login", "delete"})
            => files' = files]_vars

\* the other user's share request for a shared file has been answered
C24_Witness ==
    /\ ShareAsked
    /\ \E f \in files :
         f.id = resp.req.fileId /\ f.user_id # Caller /\ f.is_shared = TRUE

(***************************************************************************)
(* C25.  In the upload route authentication runs before the file is        *)
(* received: an upload request without a valid access token stores no      *)
(* bytes and creates no row.                                               *)
(***************************************************************************)
C25_NoBytesWithoutToken ==
    /\ []((resp.route = "upload" /\ ~ByValidAccessToken) =>
            (resp.stored = Null /\ resp.row = Null /\ resp.status # 200))
    /\ [][(resp' # resp /\ resp'.route = "upload" /\ ~ValidAccessStep)
            => UNCHANGED <<files, fileSeq, disk>>]_vars

\* an upload of an acceptable file under a token signed with another key
\* has been refused
C25_Witness ==
    /\ resp.route = "upload"
    /\ resp.req.file = PdfFile
    /\ resp.req.written
    /\ AuthCase(resp.req.auth, resp.at) = "bad signature"
    /\ resp.status = 403

AllWritten == \A r \in Requests : shares[r].pc = "done"

LastWritten == CHOOSE r \in Requests : shares[r].order = MaxShares

(***************************************************************************)
(* C21.  Under every interleaving of concurrent share requests of the      *)
(* owner for one file, each signing its token and then updating is_shared  *)
(* and share_token in one statement: once all have finished the file       *)
(* stores the token written last, that token is the only one a redeem      *)
(* accepts, and in no state, intermediate ones included, do is_shared and  *)
(* share_token disagree.                                                   *)
(***************************************************************************)
C21_LastWriteWins ==
    \A f \in files :
        /\ (f.is_shared = TRUE) <=> (f.share_token # Null)
        /\ \A token \in Minted :
             SharedResponse(token, now).status = 200 => token = f.share_token
        /\ AllWritten =>
             /\ f.is_shared = TRUE
             /\ f.share_token = shares[LastWritten].token
             /\ \A token \in Minted :
                  SharedResponse(token, now).status = 200
                    <=> (token = f.share_token /\ now < token.claims.exp)

\* both requests have finished, the one that signed first wrote last, and
\* a redeem has delivered the file
C21_Witness ==
    /\ AllWritten
    /\ \E r, q \in Requests :
         /\ shares[r].order < shares[q].order
         /\ shares[r].token.claims.iat > shares[q].token.claims.iat
    /\ resp.route = "shared"
    /\ resp.status = 200
    /\ resp.req.token = shares[LastWritten].token

ServerState == <<users, userSeq, files, fileSeq, disk, sbMajor, links>>

\* a step in which a logout cleared a session
LogoutStep ==
    /\ ~client.loading
    /\ client.token # Null
    /\ client' = ClientSignedOut(client)

(***************************************************************************)
(* C22.  Logout is client-side only: a logout clears the client's token    *)
(* and user and changes nothing on the server, and an access token issued  *)
(* before the logout is accepted by every authenticated operation as long  *)
(* as its 24 hours have not passed.                                        *)
(***************************************************************************)
C22_LogoutIsClientSide ==
    /\ [][LogoutStep =>
            /\ client'.token = Null
            /\ client'.user = Null
            /\ ServerState' = ServerState
            /\ resp' = resp]_vars
    /\ []((/\ resp.route \in AuthenticatedRoutes
           /\ client.dropped # Null
           /\ resp.req.auth = Bearer(client.dropped)
           /\ resp.at < client.dropped.claims.iat + AccessTTL)
          => Accepted)

\* after a logout the token it cleared was presented and the request was
\* handled as the user's
C22_Witness ==
    /\ client.token = Null
    /\ client.dropped # Null
    /\ resp.route = "list"
    /\ resp.req.auth = Bearer(client.dropped)
    /\ resp.status = 200

AfterMount == ~client.loading

\* a step in which a login or a register returned false
FailedStep ==
    /\ client.pending # "none"
    /\ client'.pending = "none"
    /\ client'.returned = "false"

SessionOf(c) == <<c.token, c.user, c.savedToken, c.savedUser, c.header>>

(***************************************************************************)
(* C26.  In the AuthProvider, once the saved session has been restored     *)
(* (which happens only when both the token and the user are saved), after  *)
(* any sequence of login, register and logout calls the token and the user *)
(* are both null or both non-null, isAuthenticated is true exactly when    *)
(* the token is non-null, the saved token and user and the default         *)
(* Authorization header match the state in memory, and a login or register *)
(* that fails returns false and leaves all of them unchanged.              *)
(***************************************************************************)
C26_ClientSessionConsistent ==
    /\ [](AfterMount =>
            /\ (client.token = Null) <=> (client.user = Null)
            /\ isAuthenticated <=> (client.token # Null)
            /\ client.savedToken = client.token
            /\ client.savedUser =
                 (IF client.user = Null THEN Null ELSE JsonStringify(client.user))
            /\ client.header =
                 (IF client.token = Null THEN NoHeader ELSE Bearer(client.token)))
    /\ [](client.loading =>
            /\ client.token = Null /\ client.user = Null
            /\ (client.savedToken = Null) <=> (client.savedUser = Null))
    /\ [][FailedStep => SessionOf(client') = SessionOf(client)]_vars
    /\ [][(client.pending # "none" /\ client'.pending = "none" /\ resp.status \notin 200..299)
            => client'.returned = "false"]_vars

\* signed in, then a login that the server refused has returned false
C26_Witness ==
    /\ client.token # Null
    /\ client.returned = "false"
    /\ client.dropped # Null

=============================================================================
